---------------------------- MODULE Spec2Model ----------------------------
(***************************************************************************)
(* cmsdetector: detection of CMS / PKCS container types from the outer     *)
(* ASN.1 ContentInfo wrapper, with a byte-pattern fallback for encrypted   *)
(* PKCS#12 key containers.                                                 *)
(*                                                                         *)
(* Three variants of the detection logic live in the repository:           *)
(*   - the basic variant (src/detector.go 1..139): strict parse only;      *)
(*   - the key-detection variant (src/detector.go 141..249):               *)
(*     IsUserKeyPKCS12 with its own heuristic, and IsNCAKeyPKCS12;         *)
(*   - the fallback variant (src/unnamed/part_000): Detect falls back to   *)
(*     isEncryptedPKCS12 when the strict parse fails.                      *)
(* The fallback variant keeps the source's names; the definitions of the   *)
(* other two carry the prefix Basic / Key.                                 *)
(*                                                                         *)
(* A byte buffer is a record [head, pad, tail]: the bytes of head, then    *)
(* pad bytes 0x00, then the bytes of tail.  The run of zero bytes stands   *)
(* for bulk content and lets the lengths 100 and 100000 of the size checks *)
(* be reached; no pattern the code searches for contains a zero byte.      *)
(***************************************************************************)
EXTENDS Integers, Sequences, FiniteSets, TLC

VARIABLES data, call, detected

vars == <<data, call, detected>>

(***************************************************************************)
(* Byte buffers                                                            *)
(***************************************************************************)
Buf(h, p, t) == [head |-> h, pad |-> p, tail |-> t]

\* len(data)
BLen(d) == Len(d.head) + d.pad + Len(d.tail)

\* data[i], 0-based
At(d, i) ==
    IF i < Len(d.head) THEN d.head[i + 1]
    ELSE IF i < Len(d.head) + d.pad THEN 0
    ELSE d.tail[i - Len(d.head) - d.pad + 1]

Min(a, b) == IF a < b THEN a ELSE b

Max(a, b) == IF a > b THEN a ELSE b

\* The offsets i at which a window of n bytes does not lie wholly inside the
\* run of zero bytes.  A window inside the run matches no searched pattern.
Offsets(d, n) ==
    (0 .. Min(Len(d.head) - 1, BLen(d) - n))
        \cup (Max(0, Len(d.head) + d.pad - n + 1) .. (BLen(d) - n))

\* bytes.Equal(data[i:i+len(pat)], pat)
EqualAt(d, i, pat) == \A j \in 1 .. Len(pat) : At(d, i + j - 1) = pat[j]

\* bytes.Contains(data, pat)
Contains(d, pat) == \E i \in Offsets(d, Len(pat)) : EqualAt(d, i, pat)

(***************************************************************************)
(* OIDs for various types of CMS/PKCS messages                             *)
(***************************************************************************)
PKCS7DataOID == <<1, 2, 840, 113549, 1, 7, 1>>

PKCS7SignedDataOID == <<1, 2, 840, 113549, 1, 7, 2>>

PKCS7EnvelopedDataOID == <<1, 2, 840, 113549, 1, 7, 3>>

PKCS7SignedAndEnvelopedOID == <<1, 2, 840, 113549, 1, 7, 4>>

PKCS7DigestedDataOID == <<1, 2, 840, 113549, 1, 7, 5>>

PKCS7EncryptedDataOID == <<1, 2, 840, 113549, 1, 7, 6>>

PKCS12OID == <<1, 2, 840, 113549, 1, 12, 10, 1>>

TypeEncryptedPKCS12 == "Encrypted PKCS#12"

\* asn1.ObjectIdentifier.Equal: same length and same arcs
OIDEqual(a, b) == Len(a) = Len(b) /\ \A i \in 1 .. Len(a) : a[i] = b[i]

(***************************************************************************)
(* fmt / strconv: decimal rendering of an OID                              *)
(***************************************************************************)
Digit(n) ==
    CASE n = 0 -> "0" [] n = 1 -> "1" [] n = 2 -> "2" [] n = 3 -> "3"
      [] n = 4 -> "4" [] n = 5 -> "5" [] n = 6 -> "6" [] n = 7 -> "7"
      [] n = 8 -> "8" [] n = 9 -> "9"

RECURSIVE Itoa(_)
Itoa(n) == IF n < 10 THEN Digit(n) ELSE Itoa(n \div 10) \o Digit(n % 10)

\* asn1.ObjectIdentifier.String: the arcs in decimal, joined by "."
RECURSIVE OIDString(_)
OIDString(oid) ==
    IF Len(oid) = 0 THEN ""
    ELSE IF Len(oid) = 1 THEN Itoa(oid[1])
    ELSE OIDString(SubSeq(oid, 1, Len(oid) - 1)) \o "." \o Itoa(oid[Len(oid)])


(***************************************************************************)
(* encoding/asn1 as used by asn1.Unmarshal(data, &contentInfo).  A slice   *)
(* bytes[lo:hi] of the buffer is given by its bounds; offsets are absolute.*)
(* An error is the message of the asn1 error ("" for none), without the    *)
(* details fmt appends to it.  The result of a call that the code assigns  *)
(* to a local variable is bound once, by ranging over the singleton set    *)
(* that holds it.                                                          *)
(***************************************************************************)
IntErr(msg) == [err |-> msg, ret |-> 0, offset |-> 0]

\* parseBase128Int: base-128 integer, high bit is the continuation flag
RECURSIVE parseBase128Int(_, _, _, _, _)
parseBase128Int(d, offset, hi, shifted, ret64) ==
    IF offset >= hi THEN IntErr("truncated base 128 integer")
    ELSE IF shifted = 5 THEN IntErr("base 128 integer too large")
    ELSE LET b == At(d, offset)
             r == ret64 * 128 + (b % 128)
         IN  IF shifted = 0 /\ b = 128
             THEN IntErr("integer is not minimally encoded")
             ELSE IF b < 128
             THEN IF r > 2147483647
                  THEN IntErr("base 128 integer too large")
                  ELSE [err |-> "", ret |-> r, offset |-> offset + 1]
             ELSE parseBase128Int(d, offset + 1, hi, shifted + 1, r)

TagErr(msg) ==
    [err |-> msg, class |-> 0, tag |-> 0, isCompound |-> FALSE,
     length |-> 0, offset |-> 0]

\* the long-form length loop of parseTagAndLength
RECURSIVE parseLongLength(_, _, _, _, _, _, _)
parseLongLength(d, offset, hi, i, numBytes, length, t) ==
    IF i = numBytes
    THEN IF length < 128 THEN TagErr("non-minimal length")
         ELSE [t EXCEPT !.length = length, !.offset = offset]
    ELSE IF offset >= hi THEN TagErr("truncated tag or length")
    ELSE IF length >= 8388608 THEN TagErr("length too large")
    ELSE LET l == length * 256 + At(d, offset)
         IN  IF l = 0 THEN TagErr("superfluous leading zeros in length")
             ELSE parseLongLength(d, offset + 1, hi, i + 1, numBytes, l, t)

\* parseTagAndLength: identifier octet(s) and length octet(s)
parseTagAndLength(d, initOffset, hi) ==
    IF initOffset >= hi THEN TagErr("internal error in parseTagAndLength")
    ELSE
    CHOOSE ret \in {
        IF tg.err # "" THEN TagErr(tg.err)
        ELSE IF b % 32 = 31 /\ tg.ret < 31 THEN TagErr("non-minimal tag")
        ELSE IF tg.offset >= hi THEN TagErr("truncated tag or length")
        ELSE LET b2 == At(d, tg.offset)
                 t  == [err |-> "", class |-> b \div 64, tag |-> tg.ret,
                        isCompound |-> (b \div 32) % 2 = 1,
                        length |-> 0, offset |-> tg.offset]
             IN  IF b2 < 128
                 THEN [t EXCEPT !.length = b2, !.offset = tg.offset + 1]
                 ELSE IF b2 % 128 = 0
                 THEN TagErr("indefinite length found (not DER)")
                 ELSE parseLongLength(d, tg.offset + 1, hi, 0, b2 % 128, 0, t)
        : b \in {At(d, initOffset)},
          tg \in {IF At(d, initOffset) % 32 = 31
                  THEN parseBase128Int(d, initOffset + 1, hi, 0, 0)
                  ELSE [err |-> "", ret |-> At(d, initOffset) % 32,
                        offset |-> initOffset + 1]} } : TRUE

\* invalidLength: the element does not fit in the slice
invalidLength(offset, length, sliceLength) ==
    offset + length < offset \/ offset + length > sliceLength

OIDErr(msg) == [err |-> msg, oid |-> <<>>]

\* the loop of parseObjectIdentifier over the arcs after the first varint
RECURSIVE parseArcs(_, _, _, _)
parseArcs(d, offset, hi, s) ==
    IF offset >= hi THEN [err |-> "", oid |-> s]
    ELSE CHOOSE ret \in {
             IF v.err # "" THEN OIDErr(v.err)
             ELSE parseArcs(d, v.offset, hi, Append(s, v.ret))
             : v \in {parseBase128Int(d, offset, hi, 0, 0)} } : TRUE

\* parseObjectIdentifier: the first varint packs the first two arcs
parseObjectIdentifier(d, lo, hi) ==
    IF hi = lo THEN OIDErr("zero length OBJECT IDENTIFIER")
    ELSE CHOOSE ret \in {
             IF v.err # "" THEN OIDErr(v.err)
             ELSE parseArcs(d, v.offset, hi,
                            IF v.ret < 80 THEN <<v.ret \div 40, v.ret % 40>>
                            ELSE <<2, v.ret - 80>>)
             : v \in {parseBase128Int(d, lo, hi, 0, 0)} } : TRUE

NoContent == [present |-> FALSE, lo |-> 0, hi |-> 0]

CIErr(msg) == [err |-> msg, ContentType |-> <<>>, Content |-> NoContent, offset |-> 0]

\* parseField for ContentInfo.ContentType (asn1.ObjectIdentifier, required)
parseContentType(d, lo, hi) ==
    IF lo = hi THEN CIErr("sequence truncated")
    ELSE CHOOSE ret \in {
             IF t.err # "" THEN CIErr(t.err)
             ELSE IF t.class # 0 \/ t.tag # 6 \/ t.isCompound
             THEN CIErr("tags don't match")
             ELSE IF invalidLength(t.offset, t.length, hi)
             THEN CIErr("data truncated")
             ELSE CHOOSE f \in {
                      IF o.err # "" THEN CIErr(o.err)
                      ELSE [err |-> "", ContentType |-> o.oid,
                            Content |-> NoContent,
                            offset |-> t.offset + t.length]
                      : o \in {parseObjectIdentifier(d, t.offset,
                                                     t.offset + t.length)} } : TRUE
             : t \in {parseTagAndLength(d, lo, hi)} } : TRUE

\* parseField for ContentInfo.Content (asn1.RawValue, explicit, optional, tag 0);
\* ci holds the fields parsed so far and the offset after them
parseContent(d, ci, hi) ==
    IF ci.offset = hi THEN ci
    ELSE CHOOSE ret \in {
             IF t.err # "" THEN CIErr(t.err)
             ELSE IF t.offset = hi THEN CIErr("explicit tag has no child")
             ELSE IF t.class = 2 /\ t.tag = 0 /\ (t.length = 0 \/ t.isCompound)
             THEN IF invalidLength(t.offset, t.length, hi)
                  THEN CIErr("data truncated")
                  ELSE [ci EXCEPT
                          !.Content = [present |-> TRUE, lo |-> t.offset,
                                       hi |-> t.offset + t.length],
                          !.offset = t.offset + t.length]
             ELSE ci
             : t \in {parseTagAndLength(d, ci.offset, hi)} } : TRUE

\* asn1.Unmarshal(data, &contentInfo): the outer SEQUENCE, then the two
\* fields; bytes after them, inside or after the SEQUENCE, are allowed
Unmarshal(d) ==
    IF BLen(d) = 0 THEN CIErr("sequence truncated")
    ELSE CHOOSE ret \in {
             IF t.err # "" THEN CIErr(t.err)
             ELSE IF t.class # 0 \/ t.tag # 16 \/ ~t.isCompound
             THEN CIErr("tags don't match")
             ELSE IF invalidLength(t.offset, t.length, BLen(d))
             THEN CIErr("data truncated")
             ELSE CHOOSE ci \in {
                      IF f1.err # "" THEN f1
                      ELSE CHOOSE f \in {
                               IF f2.err # "" THEN f2
                               ELSE [f2 EXCEPT !.offset = t.offset + t.length]
                               : f2 \in {parseContent(d, f1, t.offset + t.length)}
                           } : TRUE
                      : f1 \in {parseContentType(d, t.offset,
                                                 t.offset + t.length)} } : TRUE
             : t \in {parseTagAndLength(d, 0, BLen(d))} } : TRUE

(***************************************************************************)
(* Byte patterns of the heuristics                                         *)
(***************************************************************************)
\* []byte{0x02, 0x01, 0x03}: INTEGER 3
versionBytes == <<2, 1, 3>>

\* []byte{0x2A, 0x86, 0x48, 0x86, 0xF7, 0x0D, 0x01, 0x0C, 0x0A, 0x01}
pkcs12Signature == <<42, 134, 72, 134, 247, 13, 1, 12, 10, 1>>

\* []byte{0x06, 0x09, 0x2A, 0x86, 0x48, 0x86, 0xF7, 0x0D, 0x01, 0x01}
kazakhstanSignature == <<6, 9, 42, 134, 72, 134, 247, 13, 1, 1>>

\* "KEY"
StrKEY == <<75, 69, 89>>

\* "PrivateKey"
StrPrivateKey == <<80, 114, 105, 118, 97, 116, 101, 75, 101, 121>>

\* "GOST"
StrGOST == <<71, 79, 83, 84>>

\* "gost"
StrGostLower == <<103, 111, 115, 116>>

\* "ГОСТ" (UTF-8)
StrGostCyr == <<208, 147, 208, 158, 208, 161, 208, 162>>

\* "Kalkan"
StrKalkan == <<75, 97, 108, 107, 97, 110>>

\* "kalkan"
StrKalkanLower == <<107, 97, 108, 107, 97, 110>>

\* "KALKAN"
StrKalkanUpper == <<75, 65, 76, 75, 65, 78>>

\* "Калкан" (UTF-8)
StrKalkanCyr == <<208, 154, 208, 176, 208, 187, 208, 186, 208, 176, 208, 189>>

(***************************************************************************)
(* The fallback variant (src/unnamed/part_000)                             *)
(***************************************************************************)
\* DetectType without the case for PKCS12OID
DetectTypeNoPKCS12(oid) ==
    IF OIDEqual(oid, PKCS7DataOID) THEN "PKCS#7 Data"
    ELSE IF OIDEqual(oid, PKCS7SignedDataOID) THEN "PKCS#7 Signed Data"
    ELSE IF OIDEqual(oid, PKCS7EnvelopedDataOID) THEN "PKCS#7 Enveloped Data"
    ELSE IF OIDEqual(oid, PKCS7SignedAndEnvelopedOID)
    THEN "PKCS#7 Signed And Enveloped Data"
    ELSE IF OIDEqual(oid, PKCS7DigestedDataOID) THEN "PKCS#7 Digested Data"
    ELSE IF OIDEqual(oid, PKCS7EncryptedDataOID) THEN "PKCS#7 Encrypted Data"
    ELSE "Unknown OID: " \o OIDString(oid)

\* the switch on the OID in Detect
DetectType(oid) ==
    IF OIDEqual(oid, PKCS7DataOID) THEN "PKCS#7 Data"
    ELSE IF OIDEqual(oid, PKCS7SignedDataOID) THEN "PKCS#7 Signed Data"
    ELSE IF OIDEqual(oid, PKCS7EnvelopedDataOID) THEN "PKCS#7 Enveloped Data"
    ELSE IF OIDEqual(oid, PKCS7SignedAndEnvelopedOID)
    THEN "PKCS#7 Signed And Enveloped Data"
    ELSE IF OIDEqual(oid, PKCS7DigestedDataOID) THEN "PKCS#7 Digested Data"
    ELSE IF OIDEqual(oid, PKCS7EncryptedDataOID) THEN "PKCS#7 Encrypted Data"
    ELSE IF OIDEqual(oid, PKCS12OID) THEN "PKCS#12"
    ELSE "Unknown OID: " \o OIDString(oid)

\* the version scan: for i := 0; i < len(data)-len(versionBytes); i++
versionFound(d) ==
    \E i \in Offsets(d, Len(versionBytes)) :
        i < BLen(d) - Len(versionBytes) /\ EqualAt(d, i, versionBytes)

\* isEncryptedPKCS12 without the check of the leading SEQUENCE tag
isEncryptedNoTagCheck(d) ==
    IF BLen(d) < 20 THEN FALSE
    ELSE IF ~versionFound(d) THEN FALSE
    ELSE IF Contains(d, pkcs12Signature) THEN TRUE
    ELSE IF Contains(d, StrKEY) \/ Contains(d, StrPrivateKey) THEN TRUE
    ELSE versionFound(d) /\ BLen(d) > 100 /\ BLen(d) < 100000

\* isEncryptedPKCS12 that looks for the PKCS#12 OID bytes only
isEncryptedOIDBytesOnly(d) ==
    IF BLen(d) < 20 THEN FALSE
    ELSE IF At(d, 0) # 48 THEN FALSE
    ELSE IF ~versionFound(d) THEN FALSE
    ELSE IF Contains(d, pkcs12Signature) THEN TRUE
    ELSE versionFound(d) /\ BLen(d) > 100 /\ BLen(d) < 100000

\* isEncryptedPKCS12 without the final size fallback
isEncryptedNoSizeFallback(d) ==
    IF BLen(d) < 20 THEN FALSE
    ELSE IF At(d, 0) # 48 THEN FALSE
    ELSE IF ~versionFound(d) THEN FALSE
    ELSE IF Contains(d, pkcs12Signature) THEN TRUE
    ELSE Contains(d, StrKEY) \/ Contains(d, StrPrivateKey)

isEncryptedPKCS12(d) ==
    IF BLen(d) < 20 THEN FALSE
    ELSE IF At(d, 0) # 48 THEN FALSE
    ELSE IF ~versionFound(d) THEN FALSE
    ELSE IF Contains(d, pkcs12Signature) THEN TRUE
    ELSE IF Contains(d, StrKEY) \/ Contains(d, StrPrivateKey) THEN TRUE
    ELSE versionFound(d) /\ BLen(d) > 100 /\ BLen(d) < 100000

\* the zero DetectionResult returned with an error
DetectError(cause) ==
    [err |-> "failed to parse ASN.1 structure: " \o cause,
     Type |-> "", ContentType |-> <<>>, IsEncrypted |-> FALSE]

\* Detect that answers differently right after a call of IsPKCS12
DetectAfterIsPKCS12(d) ==
    IF call.op = "IsPKCS12"
    THEN [err |-> "", Type |-> "PKCS#12", ContentType |-> PKCS12OID,
          IsEncrypted |-> FALSE]
    ELSE CHOOSE result \in {
             IF contentInfo.err = ""
             THEN [err |-> "", Type |-> DetectType(contentInfo.ContentType),
                   ContentType |-> contentInfo.ContentType, IsEncrypted |-> FALSE]
             ELSE IF isEncryptedPKCS12(d)
             THEN [err |-> "", Type |-> TypeEncryptedPKCS12,
                   ContentType |-> <<>>, IsEncrypted |-> TRUE]
             ELSE DetectError(contentInfo.err)
             : contentInfo \in {Unmarshal(d)} } : TRUE

\* Detect that marks a strictly parsed PKCS#12 envelope as encrypted
DetectFlagsPKCS12(d) ==
    CHOOSE result \in {
        IF contentInfo.err = ""
        THEN [err |-> "", Type |-> DetectType(contentInfo.ContentType),
              ContentType |-> contentInfo.ContentType,
              IsEncrypted |-> OIDEqual(contentInfo.ContentType, PKCS12OID)]
        ELSE IF isEncryptedPKCS12(d)
        THEN [err |-> "", Type |-> TypeEncryptedPKCS12,
              ContentType |-> <<>>, IsEncrypted |-> TRUE]
        ELSE DetectError(contentInfo.err)
        : contentInfo \in {Unmarshal(d)} } : TRUE

\* Detect that tries the byte heuristic before the strict parse
DetectHeuristicFirst(d) ==
    IF isEncryptedPKCS12(d)
    THEN [err |-> "", Type |-> TypeEncryptedPKCS12,
          ContentType |-> <<>>, IsEncrypted |-> TRUE]
    ELSE CHOOSE result \in {
             IF contentInfo.err = ""
             THEN [err |-> "", Type |-> DetectType(contentInfo.ContentType),
                   ContentType |-> contentInfo.ContentType, IsEncrypted |-> FALSE]
             ELSE DetectError(contentInfo.err)
             : contentInfo \in {Unmarshal(d)} } : TRUE

\* Detect with the heuristic result carrying the PKCS#12 OID
DetectFillsContentType(d) ==
    CHOOSE result \in {
        IF contentInfo.err = ""
        THEN [err |-> "", Type |-> DetectType(contentInfo.ContentType),
              ContentType |-> contentInfo.ContentType, IsEncrypted |-> FALSE]
        ELSE IF isEncryptedPKCS12(d)
        THEN [err |-> "", Type |-> TypeEncryptedPKCS12,
              ContentType |-> PKCS12OID, IsEncrypted |-> TRUE]
        ELSE DetectError(contentInfo.err)
        : contentInfo \in {Unmarshal(d)} } : TRUE

Detect(d) ==
    CHOOSE result \in {
        IF contentInfo.err = ""
        THEN [err |-> "", Type |-> DetectType(contentInfo.ContentType),
              ContentType |-> contentInfo.ContentType, IsEncrypted |-> FALSE]
        ELSE IF isEncryptedPKCS12(d)
        THEN [err |-> "", Type |-> TypeEncryptedPKCS12,
              ContentType |-> <<>>, IsEncrypted |-> TRUE]
        ELSE DetectError(contentInfo.err)
        : contentInfo \in {Unmarshal(d)} } : TRUE

IsPKCS7Data(d) ==
    \E result \in {Detect(d)} :
        IF result.err # "" THEN FALSE
        ELSE OIDEqual(result.ContentType, PKCS7DataOID)

\* IsPKCS7SignedData that accepts every content type of the PKCS#7 arc
IsPKCS7SignedDataAnyPKCS7(d) ==
    \E result \in {Detect(d)} :
        IF result.err # "" THEN FALSE
        ELSE Len(result.ContentType) = 7
                /\ OIDEqual(SubSeq(result.ContentType, 1, 6),
                            SubSeq(PKCS7SignedDataOID, 1, 6))

IsPKCS7SignedData(d) ==
    \E result \in {Detect(d)} :
        IF result.err # "" THEN FALSE
        ELSE OIDEqual(result.ContentType, PKCS7SignedDataOID)

IsPKCS7EnvelopedData(d) ==
    \E result \in {Detect(d)} :
        IF result.err # "" THEN FALSE
        ELSE OIDEqual(result.ContentType, PKCS7EnvelopedDataOID)

\* IsPKCS12 that is true whenever Detect succeeds
IsPKCS12AnySuccess(d) ==
    \E result \in {Detect(d)} : result.err = ""

\* IsPKCS12 that compares the OID only
IsPKCS12OIDOnly(d) ==
    \E result \in {Detect(d)} :
        IF result.err # "" THEN FALSE
        ELSE OIDEqual(result.ContentType, PKCS12OID)

\* IsPKCS12 that returns true when Detect fails
IsPKCS12ErrTrue(d) ==
    \E result \in {Detect(d)} :
        IF result.err # "" THEN TRUE
        ELSE OIDEqual(result.ContentType, PKCS12OID)
                \/ result.Type = TypeEncryptedPKCS12

IsPKCS12(d) ==
    \E result \in {Detect(d)} :
        IF result.err # "" THEN FALSE
        ELSE OIDEqual(result.ContentType, PKCS12OID)
                \/ result.Type = TypeEncryptedPKCS12

\* IsUserKeyPKCS12 that compares the OID only
IsUserKeyOIDOnly(d) ==
    \E result \in {Detect(d)} :
        IF result.err # "" THEN FALSE
        ELSE OIDEqual(result.ContentType, PKCS12OID)

IsUserKeyPKCS12(d) ==
    \E result \in {Detect(d)} :
        IF result.err # "" THEN FALSE
        ELSE OIDEqual(result.ContentType, PKCS12OID)
                \/ result.Type = TypeEncryptedPKCS12

\* GetOIDDescription with another label for the PKCS#12 OID
GetOIDDescriptionPFX(oid) ==
    IF OIDEqual(oid, PKCS12OID) THEN "PFX" ELSE DetectType(oid)

\* GetOIDDescription whose default case leaves the OID out
GetOIDDescriptionBare(oid) ==
    IF oid \in {PKCS7DataOID, PKCS7SignedDataOID, PKCS7EnvelopedDataOID,
                PKCS7SignedAndEnvelopedOID, PKCS7DigestedDataOID,
                PKCS7EncryptedDataOID, PKCS12OID}
    THEN DetectType(oid)
    ELSE "Unknown OID: "

GetOIDDescription(oid) ==
    IF OIDEqual(oid, PKCS7DataOID) THEN "PKCS#7 Data"
    ELSE IF OIDEqual(oid, PKCS7SignedDataOID) THEN "PKCS#7 Signed Data"
    ELSE IF OIDEqual(oid, PKCS7EnvelopedDataOID) THEN "PKCS#7 Enveloped Data"
    ELSE IF OIDEqual(oid, PKCS7SignedAndEnvelopedOID)
    THEN "PKCS#7 Signed And Enveloped Data"
    ELSE IF OIDEqual(oid, PKCS7DigestedDataOID) THEN "PKCS#7 Digested Data"
    ELSE IF OIDEqual(oid, PKCS7EncryptedDataOID) THEN "PKCS#7 Encrypted Data"
    ELSE IF OIDEqual(oid, PKCS12OID) THEN "PKCS#12"
    ELSE "Unknown OID: " \o OIDString(oid)

(***************************************************************************)
(* The basic variant (src/detector.go 1..139)                              *)
(***************************************************************************)
BasicDetect(d) ==
    CHOOSE result \in {
        IF contentInfo.err # ""
        THEN [err |-> "failed to parse ASN.1 structure: " \o contentInfo.err,
              Type |-> "", ContentType |-> <<>>]
        ELSE [err |-> "", Type |-> DetectType(contentInfo.ContentType),
              ContentType |-> contentInfo.ContentType]
        : contentInfo \in {Unmarshal(d)} } : TRUE

BasicIsPKCS12(d) ==
    \E result \in {BasicDetect(d)} :
        IF result.err # "" THEN FALSE
        ELSE OIDEqual(result.ContentType, PKCS12OID)

(***************************************************************************)
(* The key-detection variant (src/detector.go 141..249)                    *)
(***************************************************************************)
\* the version scan of IsUserKeyPKCS12
KeyVersionFound(d) ==
    \E i \in Offsets(d, Len(versionBytes)) :
        i < BLen(d) - Len(versionBytes) /\ EqualAt(d, i, versionBytes)

\* IsUserKeyPKCS12 that returns false when no marker is found
KeyIsUserKeyNeedsMarker(d) ==
    IF BLen(d) < 8 THEN FALSE
    ELSE IF At(d, 0) # 48 THEN FALSE
    ELSE \E result \in {BasicDetect(d)} :
             IF result.err = "" /\ OIDEqual(result.ContentType, PKCS12OID)
             THEN TRUE
             ELSE IF ~KeyVersionFound(d) THEN FALSE
             ELSE IF BLen(d) < 20 \/ BLen(d) > 100000 THEN FALSE
             ELSE IF Contains(d, StrGOST) \/ Contains(d, StrGostCyr)
                        \/ Contains(d, StrGostLower)
             THEN TRUE
             ELSE IF Contains(d, pkcs12Signature) THEN TRUE
             ELSE Contains(d, StrKEY) \/ Contains(d, StrPrivateKey)

KeyIsUserKeyPKCS12(d) ==
    IF BLen(d) < 8 THEN FALSE
    ELSE IF At(d, 0) # 48 THEN FALSE
    ELSE \E result \in {BasicDetect(d)} :
             IF result.err = "" /\ OIDEqual(result.ContentType, PKCS12OID)
             THEN TRUE
             ELSE IF ~KeyVersionFound(d) THEN FALSE
             ELSE IF BLen(d) < 20 \/ BLen(d) > 100000 THEN FALSE
             ELSE IF Contains(d, StrGOST) \/ Contains(d, StrGostCyr)
                        \/ Contains(d, StrGostLower)
             THEN TRUE
             ELSE IF Contains(d, pkcs12Signature) THEN TRUE
             ELSE IF Contains(d, StrKEY) \/ Contains(d, StrPrivateKey) THEN TRUE
             ELSE KeyVersionFound(d)

\* IsNCAKeyPKCS12 without the call of IsUserKeyPKCS12
IsNCAKeyNoPrecheck(d) ==
    IF Contains(d, StrGOST) \/ Contains(d, StrGostCyr) THEN TRUE
    ELSE IF Contains(d, StrKalkan) \/ Contains(d, StrKalkanLower)
               \/ Contains(d, StrKalkanUpper) \/ Contains(d, StrKalkanCyr)
    THEN TRUE
    ELSE Contains(d, kazakhstanSignature)

\* IsNCAKeyPKCS12 that knows one spelling of the vendor name
IsNCAKeyOneSpelling(d) ==
    IF ~KeyIsUserKeyPKCS12(d) THEN FALSE
    ELSE IF Contains(d, StrGOST) \/ Contains(d, StrGostCyr) THEN TRUE
    ELSE IF Contains(d, StrKalkan) \/ Contains(d, StrKalkanCyr) THEN TRUE
    ELSE Contains(d, kazakhstanSignature)

IsNCAKeyPKCS12(d) ==
    IF ~KeyIsUserKeyPKCS12(d) THEN FALSE
    ELSE IF Contains(d, StrGOST) \/ Contains(d, StrGostCyr) THEN TRUE
    ELSE IF Contains(d, StrKalkan) \/ Contains(d, StrKalkanLower)
               \/ Contains(d, StrKalkanUpper) \/ Contains(d, StrKalkanCyr)
    THEN TRUE
    ELSE Contains(d, kazakhstanSignature)

(***************************************************************************)
(* Run-time panics: the index and slice expressions on the buffer          *)
(***************************************************************************)
\* data[i] is inside the buffer
IndexOK(d, i) == 0 <= i /\ i < BLen(d)

\* data[lo:hi] is inside the buffer
SliceOK(d, lo, hi) == 0 <= lo /\ lo <= hi /\ hi <= BLen(d)

\* The last value of i for which the body of the version scan runs: the
\* first match, where the loop breaks, else the last value below the loop
\* bound; negative when the body never runs.
ScanLast(d) ==
    LET found == {i \in Offsets(d, Len(versionBytes)) :
                    i < BLen(d) - Len(versionBytes) /\ EqualAt(d, i, versionBytes)}
    IN  IF found # {}
        THEN CHOOSE i \in found : \A j \in found : i <= j
        ELSE BLen(d) - Len(versionBytes) - 1

\* data[i:i+len(versionBytes)] leaves the buffer for some i of the scan; the
\* slices move up with i, so the last one decides
ScanPanics(d) ==
    \E last \in {ScanLast(d)} :
        last >= 0 /\ ~SliceOK(d, last, last + Len(versionBytes))

\* isEncryptedPKCS12 reading data[0] without the length check before it
isEncryptedPanicsNoLenCheck(d) ==
    IF ~IndexOK(d, 0) THEN TRUE
    ELSE IF At(d, 0) # 48 THEN FALSE
    ELSE ScanPanics(d)

\* isEncryptedPKCS12 panics: data[0] and the slices of the version scan
isEncryptedPKCS12Panics(d) ==
    IF BLen(d) < 20 THEN FALSE
    ELSE IF ~IndexOK(d, 0) THEN TRUE
    ELSE IF At(d, 0) # 48 THEN FALSE
    ELSE ScanPanics(d)

\* Detect panics: asn1.Unmarshal reports errors, the fallback indexes
DetectPanics(d) == Unmarshal(d).err # "" /\ isEncryptedPKCS12Panics(d)

\* IsUserKeyPKCS12 of the key-detection variant panics: data[0] and the
\* slices of its version scan, the same loop as in isEncryptedPKCS12
KeyIsUserKeyPKCS12Panics(d) ==
    IF BLen(d) < 8 THEN FALSE
    ELSE IF ~IndexOK(d, 0) THEN TRUE
    ELSE IF At(d, 0) # 48 THEN FALSE
    ELSE IF BasicIsPKCS12(d) THEN FALSE
    ELSE ScanPanics(d)

\* the call of op on d panics
Panics(op, d) ==
    CASE op \in {"Detect", "IsPKCS7Data", "IsPKCS7SignedData",
                 "IsPKCS7EnvelopedData", "IsPKCS12", "IsUserKeyPKCS12"}
            -> DetectPanics(d)
      [] op \in {"KeyIsUserKeyPKCS12", "IsNCAKeyPKCS12"}
            -> KeyIsUserKeyPKCS12Panics(d)
      [] OTHER -> FALSE

(***************************************************************************)
(* asn1.Marshal(contentInfo) as used by the tests' createTestData          *)
(***************************************************************************)
\* appendBase128Int
RECURSIVE EncodeBase128(_)
EncodeBase128(n) ==
    IF n < 128 THEN <<n>>
    ELSE LET h == EncodeBase128(n \div 128)
         IN  [i \in 1 .. Len(h) |-> IF h[i] < 128 THEN h[i] + 128 ELSE h[i]]
                \o <<n % 128>>

RECURSIVE EncodeArcs(_)
EncodeArcs(s) ==
    IF Len(s) = 0 THEN <<>> ELSE EncodeBase128(s[1]) \o EncodeArcs(Tail(s))

\* makeObjectIdentifier: the first two arcs share the first varint
EncodeOID(oid) ==
    EncodeBase128(oid[1] * 40 + oid[2]) \o EncodeArcs(SubSeq(oid, 3, Len(oid)))

RECURSIVE BigEndian(_)
BigEndian(n) == IF n < 256 THEN <<n>> ELSE BigEndian(n \div 256) \o <<n % 256>>

\* appendLength / appendTagAndLength: short form below 128, else long form
EncodeLength(n) ==
    IF n < 128 THEN <<n>> ELSE <<128 + Len(BigEndian(n))>> \o BigEndian(n)

TLV(tag, body) == <<tag>> \o EncodeLength(Len(body)) \o body

\* createTestData: ContentInfo{ContentType: oid, Content: RawValue{Class: 2,
\* Tag: 0, IsCompound: true, Bytes: content}}; a zero Content is omitted
Marshal(oid, hasContent, content) ==
    TLV(48, TLV(6, EncodeOID(oid))
              \o (IF hasContent THEN TLV(160, content) ELSE <<>>))

(***************************************************************************)
(* The buffers handed to the package                                       *)
(***************************************************************************)
MaxMarkers == 1

FixedOIDs ==
    {PKCS7DataOID, PKCS7SignedDataOID, PKCS7EnvelopedDataOID,
     PKCS7SignedAndEnvelopedOID, PKCS7DigestedDataOID, PKCS7EncryptedDataOID,
     PKCS12OID}

\* OIDs outside the fixed set: the tests' 1.2.3.4.5, a neighbour of the fixed
\* OIDs, a proper prefix of them, and one whose first varint takes two bytes
OtherOIDs ==
    {<<1, 2, 3, 4, 5>>, <<1, 2, 840, 113549, 1, 7, 7>>,
     <<1, 2, 840, 113549, 1, 7>>, <<2, 100, 3>>}

SampleOIDs == FixedOIDs \cup OtherOIDs

\* []byte{0x04, 0x02, 0xDE, 0xAD}
SampleContent == <<4, 2, 222, 173>>

\* total lengths on both sides of every size check of the heuristics
TotalLens == {19, 20, 100, 101, 99999, 100000, 100001}

\* A family of buffers is a pair <<head, lens>>: the head, and the total
\* lengths it is padded to (besides not being padded at all).
\* The envelopes the tests build, with and without the content field:
EnvelopeFamilies ==
    {<<Marshal(o, TRUE, SampleContent), {}>> : o \in SampleOIDs \ {PKCS12OID}}
        \cup {<<Marshal(PKCS12OID, TRUE, SampleContent), {101, 100001}>>,
              <<Marshal(PKCS12OID, FALSE, <<>>), {}>>,
              <<Marshal(<<1, 2, 3, 4, 5>>, FALSE, <<>>), {101}>>}

\* Malformed envelopes: an indefinite length (the tests' real-world sample),
\* a second element with no child, a second element that is not the
\* explicit tag 0, a non-minimal OID, a first element that is no OID; and
\* the tests' invalid and too short data.
BrokenFamilies ==
    {<<<<48, 128, 6, 9, 42, 134, 72, 134, 247, 13, 1, 7, 2, 160, 128>>, {}>>,
     <<TLV(48, TLV(6, EncodeOID(PKCS12OID)) \o <<5, 0>>), {}>>,
     <<TLV(48, TLV(6, EncodeOID(PKCS7DataOID)) \o <<4, 1, 7>>), {}>>,
     <<TLV(48, TLV(6, <<128, 1>>)), {}>>,
     <<TLV(48, TLV(2, <<3>>) \o TLV(6, EncodeOID(PKCS12OID))), {}>>,
     <<<<1, 2, 3>>, {}>>,
     <<<<48, 3>>, {}>>}

\* Heads for the byte scans: the mock PKCS#12 header of the tests (its
\* SEQUENCE announces more bytes than follow), a head that is no SEQUENCE,
\* the empty head and a lone SEQUENCE tag.
ScanFamilies ==
    {<<<<48, 130, 1, 0>>, TotalLens>>,
     <<<<49, 130, 1, 0>>, {101}>>,
     <<<<>>, {}>>,
     <<<<48>>, {}>>}

\* the marker strings and signatures the heuristics look for, and a
\* spelling they do not list ("KalKan")
Markers ==
    <<StrKEY, StrPrivateKey, StrGOST, StrGostLower, StrGostCyr,
      StrKalkan, StrKalkanLower, StrKalkanUpper, StrKalkanCyr,
      pkcs12Signature, kazakhstanSignature, <<75, 97, 108, 75, 97, 110>>>>

\* the selections of k markers, in the order of the list
MarkerRuns(k) ==
    {[i \in 1 .. k |-> Markers[f[i]]] :
        f \in {g \in [1 .. k -> 1 .. Len(Markers)] :
                  \A i \in 1 .. k - 1 : g[i] < g[i + 1]}}

RECURSIVE Flatten(_)
Flatten(ss) == IF Len(ss) = 0 THEN <<>> ELSE ss[1] \o Flatten(Tail(ss))

\* what follows a scan head: at most MaxMarkers markers, with the version
\* pattern before them, after them (ending the buffer), or nowhere
ScanTails ==
    {v[1] \o Flatten(ms) \o v[2] :
        v \in {<<<<>>, <<>>>>, <<versionBytes, <<>>>>, <<<<>>, versionBytes>>},
        ms \in UNION {MarkerRuns(k) : k \in 0 .. MaxMarkers}}

\* what follows an envelope: nothing, or trailing bytes with markers
TrailingTails ==
    {<<>>, versionBytes \o StrKEY, StrKEY \o versionBytes,
     versionBytes \o StrKalkan, versionBytes \o <<7>>}

Pads(f, t) ==
    {0} \cup {L - Len(f[1]) - Len(t) : L \in {x \in f[2] : x >= Len(f[1]) + Len(t)}}

Inputs ==
    UNION {{Buf(f[1], p, t) : p \in Pads(f, t)} :
              f \in ScanFamilies, t \in ScanTails}
        \cup UNION {{Buf(f[1], p, t) : p \in Pads(f, t)} :
              f \in EnvelopeFamilies \cup BrokenFamilies, t \in TrailingTails}

NoCall == [op |-> "none", arg |-> <<>>, ret |-> FALSE]

Init ==
    /\ data \in Inputs
    /\ call = NoCall
    /\ detected = {}

\* a call returns; the buffer is left as it was, and what Detect has
\* returned on it so far is kept in detected
Return(op, arg, ret) ==
    /\ call' = [op |-> op, arg |-> arg, ret |-> ret]
    /\ detected' = IF op = "Detect" THEN detected \cup {ret} ELSE detected
    /\ UNCHANGED data

CallDetect == Return("Detect", <<>>, Detect(data))

CallIsPKCS7Data == Return("IsPKCS7Data", <<>>, IsPKCS7Data(data))

CallIsPKCS7SignedData == Return("IsPKCS7SignedData", <<>>, IsPKCS7SignedData(data))

CallIsPKCS7EnvelopedData ==
    Return("IsPKCS7EnvelopedData", <<>>, IsPKCS7EnvelopedData(data))

CallIsPKCS12 == Return("IsPKCS12", <<>>, IsPKCS12(data))

CallIsUserKeyPKCS12 == Return("IsUserKeyPKCS12", <<>>, IsUserKeyPKCS12(data))

CallGetOIDDescription ==
    \E oid \in {Unmarshal(data).ContentType, <<1, 2, 3, 4, 5>>} \ {<<>>} :
        Return("GetOIDDescription", oid, GetOIDDescription(oid))

CallBasicDetect == Return("BasicDetect", <<>>, BasicDetect(data))

CallBasicIsPKCS12 == Return("BasicIsPKCS12", <<>>, BasicIsPKCS12(data))

CallKeyIsUserKeyPKCS12 ==
    Return("KeyIsUserKeyPKCS12", <<>>, KeyIsUserKeyPKCS12(data))

CallIsNCAKeyPKCS12 == Return("IsNCAKeyPKCS12", <<>>, IsNCAKeyPKCS12(data))

Next ==
    \/ CallDetect
    \/ CallIsPKCS7Data
    \/ CallIsPKCS7SignedData
    \/ CallIsPKCS7EnvelopedData
    \/ CallIsPKCS12
    \/ CallIsUserKeyPKCS12
    \/ CallGetOIDDescription
    \/ CallBasicDetect
    \/ CallBasicIsPKCS12
    \/ CallKeyIsUserKeyPKCS12
    \/ CallIsNCAKeyPKCS12

Spec == Init /\ [][Next]_vars

(***************************************************************************)
(* Properties                                                              *)
(***************************************************************************)
\* the buffer starts with the envelope createTestData builds for oid
\* (with or without the content field); bytes may follow it
IsEnvelopeOf(d, oid) ==
    \E c \in BOOLEAN : d.head = Marshal(oid, c, IF c THEN SampleContent ELSE <<>>)

\* the canonical labels of the fixed OIDs, as the specification lists them
CanonicalLabel(oid) ==
    CASE oid = <<1, 2, 840, 113549, 1, 7, 1>> -> "PKCS#7 Data"
      [] oid = <<1, 2, 840, 113549, 1, 7, 2>> -> "PKCS#7 Signed Data"
      [] oid = <<1, 2, 840, 113549, 1, 7, 3>> -> "PKCS#7 Enveloped Data"
      [] oid = <<1, 2, 840, 113549, 1, 7, 4>> -> "PKCS#7 Signed And Enveloped Data"
      [] oid = <<1, 2, 840, 113549, 1, 7, 5>> -> "PKCS#7 Digested Data"
      [] oid = <<1, 2, 840, 113549, 1, 7, 6>> -> "PKCS#7 Encrypted Data"
      [] oid = <<1, 2, 840, 113549, 1, 12, 10, 1>> -> "PKCS#12"

\* the dotted-decimal form of the sampled OIDs outside the fixed set
DottedForm(oid) ==
    CASE oid = <<1, 2, 3, 4, 5>> -> "1.2.3.4.5"
      [] oid = <<1, 2, 840, 113549, 1, 7, 7>> -> "1.2.840.113549.1.7.7"
      [] oid = <<1, 2, 840, 113549, 1, 7>> -> "1.2.840.113549.1.7"
      [] oid = <<2, 100, 3>> -> "2.100.3"

HeuristicResult ==
    [err |-> "", Type |-> "Encrypted PKCS#12", ContentType |-> <<>>,
     IsEncrypted |-> TRUE]

\* C1: for each of the seven fixed OIDs O, Detect on a valid envelope whose
\* content type is O returns no error, ContentType = O, Type = O's canonical
\* label and IsEncrypted = false.
C1_FixedOIDEnvelope ==
    call.op = "Detect" =>
        \A O \in FixedOIDs :
            IsEnvelopeOf(data, O) =>
                call.ret = [err |-> "", Type |-> CanonicalLabel(O),
                            ContentType |-> O, IsEncrypted |-> FALSE]

C1_Witness ==
    /\ call.op = "Detect"
    /\ data = Buf(Marshal(PKCS12OID, TRUE, SampleContent), 0, <<>>)
    /\ call.ret.Type = "PKCS#12"

\* C2: every buffer whose first byte is 0x30, that contains 02 01 03 and
\* "KEY" and is 20 to 100000 bytes long, is classified by Detect as
\* "Encrypted PKCS#12" with IsEncrypted = true and no error, and IsPKCS12
\* returns true on it.  Stated for the buffers the strict parse rejects,
\* the only ones the fallback is tried on.
C2_Premise ==
    /\ BLen(data) >= 20
    /\ BLen(data) <= 100000
    /\ At(data, 0) = 48
    /\ Contains(data, versionBytes)
    /\ Contains(data, StrKEY)
    /\ Unmarshal(data).err # ""

C2_MarkedBufferIsEncryptedPKCS12 ==
    /\ (call.op = "Detect" /\ C2_Premise) => call.ret = HeuristicResult
    /\ (call.op = "IsPKCS12" /\ C2_Premise) => call.ret = TRUE

\* C3: whenever Detect returns without error, these are equivalent:
\* Type = "Encrypted PKCS#12"; IsEncrypted; ContentType is empty; the strict
\* parse failed.  A buffer that parses strictly with the PKCS#12 OID is
\* reported as "PKCS#12" with IsEncrypted = false.
C3_EncryptedOnlyByHeuristic ==
    (call.op = "Detect" /\ call.ret.err = "") =>
        /\ (call.ret.Type = "Encrypted PKCS#12") = call.ret.IsEncrypted
        /\ call.ret.IsEncrypted = (call.ret.ContentType = <<>>)
        /\ (call.ret.ContentType = <<>>) = (Unmarshal(data).err # "")
        /\ (Unmarshal(data).err = "" /\ Unmarshal(data).ContentType = PKCS12OID)
              => (call.ret.Type = "PKCS#12" /\ ~call.ret.IsEncrypted)

C3_Witness ==
    /\ call.op = "Detect"
    /\ call.ret.err = ""
    /\ call.ret.IsEncrypted
    /\ Unmarshal(data).err # ""

\* C4: for an OID O outside the fixed set, Detect on a valid envelope with
\* content type O succeeds with ContentType = O and Type = "Unknown OID: "
\* followed by O in dotted decimals, and GetOIDDescription(O) returns the
\* same string.
C4_UnknownOID ==
    /\ call.op = "Detect" =>
          \A O \in OtherOIDs :
              IsEnvelopeOf(data, O) =>
                  /\ call.ret = [err |-> "", Type |-> "Unknown OID: " \o DottedForm(O),
                                 ContentType |-> O, IsEncrypted |-> FALSE]
                  /\ GetOIDDescription(O) = call.ret.Type
    /\ (call.op = "GetOIDDescription" /\ call.arg \in OtherOIDs) =>
          call.ret = "Unknown OID: " \o DottedForm(call.arg)

C4_Witness ==
    /\ call.op = "Detect"
    /\ IsEnvelopeOf(data, <<1, 2, 3, 4, 5>>)
    /\ call.ret.Type = "Unknown OID: 1.2.3.4.5"

\* C5: IsPKCS12(b) is true iff Detect(b) succeeds and its result has the
\* PKCS#12 OID as ContentType or the Type "Encrypted PKCS#12".
C5_IsPKCS12 ==
    /\ call.op = "IsPKCS12" =>
          call.ret = (/\ Detect(data).err = ""
                      /\ \/ Detect(data).ContentType = PKCS12OID
                         \/ Detect(data).Type = "Encrypted PKCS#12")
    /\ call.op = "BasicIsPKCS12" =>
          call.ret = (/\ BasicDetect(data).err = ""
                      /\ \/ BasicDetect(data).ContentType = PKCS12OID
                         \/ BasicDetect(data).Type = "Encrypted PKCS#12")

C5_Witness ==
    /\ call.op = "IsPKCS12"
    /\ call.ret = TRUE
    /\ Detect(data).Type = "Encrypted PKCS#12"

\* C6 as claimed: for every buffer b, IsUserKeyPKCS12(b) = IsPKCS12(b), in
\* the fallback variant and in the key-detection variant alike.
C6_UserKeySameAsPKCS12 ==
    /\ call.op = "IsUserKeyPKCS12" => call.ret = IsPKCS12(data)
    /\ call.op = "KeyIsUserKeyPKCS12" => call.ret = IsPKCS12(data)

\* C6 as amended: the IsUserKeyPKCS12 of the fallback variant returns what
\* IsPKCS12 returns, for every buffer: true iff Detect succeeds with the
\* PKCS#12 OID or with the Type "Encrypted PKCS#12".
C6_FallbackUserKeySameAsPKCS12 ==
    call.op = "IsUserKeyPKCS12" =>
        /\ call.ret = IsPKCS12(data)
        /\ call.ret = (/\ Detect(data).err = ""
                       /\ \/ Detect(data).ContentType = PKCS12OID
                          \/ Detect(data).Type = "Encrypted PKCS#12")

C6_Witness ==
    /\ call.op = "IsUserKeyPKCS12"
    /\ call.ret = TRUE
    /\ Detect(data).IsEncrypted

\* the markers of IsNCAKeyPKCS12 as the claim lists them
HasNCAMarker(d) ==
    \/ Contains(d, <<71, 79, 83, 84>>)
    \/ Contains(d, <<208, 147, 208, 158, 208, 161, 208, 162>>)
    \/ Contains(d, <<75, 97, 108, 107, 97, 110>>)
    \/ Contains(d, <<107, 97, 108, 107, 97, 110>>)
    \/ Contains(d, <<75, 65, 76, 75, 65, 78>>)
    \/ Contains(d, <<208, 154, 208, 176, 208, 187, 208, 186, 208, 176, 208, 189>>)
    \/ Contains(d, <<6, 9, 42, 134, 72, 134, 247, 13, 1, 1>>)

\* C7: IsNCAKeyPKCS12(b) is true iff IsUserKeyPKCS12(b) is true and b holds
\* "GOST", "ГОСТ", "Kalkan", "kalkan", "KALKAN", "Калкан" or the signature
\* 06 09 2A 86 48 86 F7 0D 01 01; so it implies IsUserKeyPKCS12(b), and a
\* buffer that passes the general check without a marker is no NCA key.
C7_NCAKey ==
    call.op = "IsNCAKeyPKCS12" =>
        /\ call.ret = (KeyIsUserKeyPKCS12(data) /\ HasNCAMarker(data))
        /\ call.ret => KeyIsUserKeyPKCS12(data)
        /\ (KeyIsUserKeyPKCS12(data) /\ ~HasNCAMarker(data)) => call.ret = FALSE

C7_Witness ==
    /\ call.op = "IsNCAKeyPKCS12"
    /\ call.ret = FALSE
    /\ KeyIsUserKeyPKCS12(data)
    /\ Contains(data, StrKEY)

\* ASCII lower case of a byte
Lower(b) == IF b >= 65 /\ b <= 90 THEN b + 32 ELSE b

\* the buffer holds pat in some letter case
ContainsAnyCase(d, pat) ==
    \E i \in Offsets(d, Len(pat)) :
        \A j \in 1 .. Len(pat) : Lower(At(d, i + j - 1)) = Lower(pat[j])

\* C8 as claimed: every buffer that passes IsUserKeyPKCS12 and holds "GOST"
\* or "Kalkan" in any letter case satisfies IsNCAKeyPKCS12.
C8_AnyCaseMarker ==
    (/\ call.op = "IsNCAKeyPKCS12"
     /\ KeyIsUserKeyPKCS12(data)
     /\ ContainsAnyCase(data, StrGOST) \/ ContainsAnyCase(data, StrKalkan))
        => call.ret = TRUE

\* C8 as amended: every buffer that passes IsUserKeyPKCS12 and holds
\* "GOST", "Kalkan", "kalkan" or "KALKAN" satisfies IsNCAKeyPKCS12.
C8_ListedSpellings ==
    (/\ call.op = "IsNCAKeyPKCS12"
     /\ KeyIsUserKeyPKCS12(data)
     /\ \/ Contains(data, <<71, 79, 83, 84>>)
        \/ Contains(data, <<75, 97, 108, 107, 97, 110>>)
        \/ Contains(data, <<107, 97, 108, 107, 97, 110>>)
        \/ Contains(data, <<75, 65, 76, 75, 65, 78>>))
        => call.ret = TRUE

C8_Witness ==
    /\ call.op = "IsNCAKeyPKCS12"
    /\ call.ret = TRUE
    /\ Contains(data, StrKalkanUpper)
    /\ ~Contains(data, StrGOST)

\* C9 as claimed: on every buffer on which Detect returns an error, each of
\* IsPKCS7Data, IsPKCS7SignedData, IsPKCS7EnvelopedData, IsPKCS12,
\* IsUserKeyPKCS12 (either variant) and IsNCAKeyPKCS12 returns false.
C9_ErrorsCollapseToFalse ==
    (/\ call.op \in {"IsPKCS7Data", "IsPKCS7SignedData", "IsPKCS7EnvelopedData",
                     "IsPKCS12", "IsUserKeyPKCS12", "KeyIsUserKeyPKCS12",
                     "IsNCAKeyPKCS12"}
     /\ Detect(data).err # "")
        => call.ret = FALSE

\* C9 as amended: on every buffer on which Detect returns an error,
\* IsPKCS7Data, IsPKCS7SignedData, IsPKCS7EnvelopedData, IsPKCS12 and the
\* fallback variant's IsUserKeyPKCS12 return false.
C9_DetectErrorsCollapseToFalse ==
    (/\ call.op \in {"IsPKCS7Data", "IsPKCS7SignedData", "IsPKCS7EnvelopedData",
                     "IsPKCS12", "IsUserKeyPKCS12"}
     /\ Detect(data).err # "")
        => call.ret = FALSE

C9_Witness ==
    /\ call.op = "IsPKCS12"
    /\ call.ret = FALSE
    /\ Detect(data).err # ""
    /\ KeyIsUserKeyPKCS12(data)

\* C10: Detect returns an error, never a heuristic result, for every buffer
\* shorter than 3 bytes and every buffer whose first byte is not 0x30; the
\* error is "failed to parse ASN.1 structure: " followed by the parse error.
C10_NoRescueWithoutSequenceTag ==
    (/\ call.op = "Detect"
     /\ BLen(data) < 3 \/ At(data, 0) # 48)
        => /\ call.ret.err # ""
           /\ Unmarshal(data).err # ""
           /\ call.ret.err = "failed to parse ASN.1 structure: " \o Unmarshal(data).err
           /\ call.ret.Type # "Encrypted PKCS#12"
           /\ ~call.ret.IsEncrypted

C10_Witness ==
    /\ call.op = "Detect"
    /\ BLen(data) >= 20
    /\ At(data, 0) # 48
    /\ versionFound(data)
    /\ Contains(data, StrKEY)
    /\ call.ret.err # ""

\* the OID each fixed-OID predicate is named after
OwnOID(op) ==
    CASE op = "IsPKCS7Data" -> <<1, 2, 840, 113549, 1, 7, 1>>
      [] op = "IsPKCS7SignedData" -> <<1, 2, 840, 113549, 1, 7, 2>>
      [] op = "IsPKCS7EnvelopedData" -> <<1, 2, 840, 113549, 1, 7, 3>>

\* C11: on a valid envelope whose content type O is one of the seven fixed
\* OIDs, each of IsPKCS7Data, IsPKCS7SignedData, IsPKCS7EnvelopedData returns
\* true iff O is its own OID: false for the sibling PKCS#7 OIDs and for the
\* PKCS#12 OID.
C11_FixedOIDPredicates ==
    call.op \in {"IsPKCS7Data", "IsPKCS7SignedData", "IsPKCS7EnvelopedData"} =>
        \A O \in FixedOIDs :
            IsEnvelopeOf(data, O) => call.ret = (O = OwnOID(call.op))

C11_Witness ==
    /\ call.op = "IsPKCS7SignedData"
    /\ IsEnvelopeOf(data, PKCS7EnvelopedDataOID)
    /\ call.ret = FALSE

\* C12: no call panics or indexes outside the buffer, whatever the length of
\* the buffer (the empty buffer and buffers shorter than the version pattern
\* included), and every call returns a value: Detect a result, the
\* predicates a boolean, GetOIDDescription a label.
C12_NoPanic ==
    call.op # "none" =>
        /\ ~Panics(call.op, data)
        /\ ~isEncryptedPKCS12Panics(data)
        /\ ~KeyIsUserKeyPKCS12Panics(data)
        /\ call.op \in {"Detect", "BasicDetect"} =>
               {"err", "Type", "ContentType"} \subseteq DOMAIN call.ret
        /\ call.op \in {"IsPKCS7Data", "IsPKCS7SignedData", "IsPKCS7EnvelopedData",
                         "IsPKCS12", "IsUserKeyPKCS12", "BasicIsPKCS12",
                         "KeyIsUserKeyPKCS12", "IsNCAKeyPKCS12"} =>
               call.ret \in BOOLEAN
        /\ call.op = "GetOIDDescription" => call.ret # ""

C12_Witness ==
    /\ call.op = "KeyIsUserKeyPKCS12"
    /\ BLen(data) = 0
    /\ call.ret = FALSE

Prefixes(d) == {Buf(SubSeq(d.head, 1, k), 0, <<>>) : k \in 0 .. Len(d.head)}

\* C14: if a buffer b parses strictly as a ContentInfo envelope, Detect on b
\* followed by any bytes t succeeds with the Type and ContentType of Detect(b)
\* and IsEncrypted = false, whatever markers t holds; so does the Detect of
\* the basic variant.
C14_TrailingBytesIgnored ==
    \A b \in Prefixes(data) :
        Unmarshal(b).err = "" =>
            /\ call.op = "Detect" =>
                   /\ call.ret = Detect(b)
                   /\ call.ret.err = ""
                   /\ ~call.ret.IsEncrypted
            /\ call.op = "BasicDetect" =>
                   /\ call.ret = BasicDetect(b)
                   /\ call.ret.err = ""

C14_Witness ==
    /\ call.op = "Detect"
    /\ IsEnvelopeOf(data, PKCS7SignedDataOID)
    /\ data.tail = versionBytes \o StrKEY
    /\ call.ret.Type = "PKCS#7 Signed Data"

\* C15: the version-marker condition of isEncryptedPKCS12 and of the
\* heuristic part of IsUserKeyPKCS12 is a substring search over the whole
\* buffer: it holds iff 02 01 03 occurs at some offset i with
\* 0 <= i <= len(buffer) - 3.
C15_VersionScanIsSubstringSearch ==
    /\ call.op = "Detect" =>
           versionFound(data) = Contains(data, <<2, 1, 3>>)
    /\ call.op = "KeyIsUserKeyPKCS12" =>
           KeyVersionFound(data) = Contains(data, <<2, 1, 3>>)

\* the markers of the general check are absent: the PKCS#12 OID bytes, "KEY",
\* "PrivateKey", "GOST", "ГОСТ", "gost"
NoGeneralMarker(d) ==
    /\ ~Contains(d, <<42, 134, 72, 134, 247, 13, 1, 12, 10, 1>>)
    /\ ~Contains(d, <<75, 69, 89>>)
    /\ ~Contains(d, <<80, 114, 105, 118, 97, 116, 101, 75, 101, 121>>)
    /\ ~Contains(d, <<71, 79, 83, 84>>)
    /\ ~Contains(d, <<208, 147, 208, 158, 208, 161, 208, 162>>)
    /\ ~Contains(d, <<103, 111, 115, 116>>)

\* C16 as claimed: on a buffer whose first byte is 0x30, that holds 02 01 03
\* and none of the markers, the general PKCS#12 check (isEncryptedPKCS12,
\* seen through Detect after a failed strict parse, and the key-detection
\* IsUserKeyPKCS12) returns true whenever the length is in 20..100000.
C16_GenerousFallback ==
    (/\ BLen(data) >= 20 /\ BLen(data) <= 100000
     /\ At(data, 0) = 48
     /\ Contains(data, <<2, 1, 3>>)
     /\ NoGeneralMarker(data))
        => /\ call.op = "KeyIsUserKeyPKCS12" => call.ret = TRUE
           /\ (call.op = "Detect" /\ Unmarshal(data).err # "") =>
                  (call.ret.err = "" /\ call.ret.IsEncrypted)

\* C16 as amended: on a buffer whose first byte is 0x30, on which the
\* version scan of the function finds 02 01 03 and that holds none of the
\* markers, the key-detection IsUserKeyPKCS12 returns true iff the length is
\* in 20..100000, and isEncryptedPKCS12 returns true iff the length is in
\* 101..99999 (Detect then reports "Encrypted PKCS#12" when the strict parse
\* has failed).
C16_SizeFallbackPerVariant ==
    (BLen(data) > 0 /\ At(data, 0) = 48 /\ NoGeneralMarker(data)) =>
        /\ (call.op = "KeyIsUserKeyPKCS12" /\ BLen(data) >= 8
                /\ KeyVersionFound(data)) =>
               call.ret = (BLen(data) >= 20 /\ BLen(data) <= 100000)
        /\ (call.op = "Detect" /\ versionFound(data)) =>
               /\ isEncryptedPKCS12(data) = (BLen(data) > 100 /\ BLen(data) < 100000)
               /\ Unmarshal(data).err # "" =>
                      (call.ret.err = "" /\ call.ret.IsEncrypted) =
                          (BLen(data) > 100 /\ BLen(data) < 100000)

C16_Witness ==
    /\ call.op = "KeyIsUserKeyPKCS12"
    /\ call.ret = TRUE
    /\ BLen(data) = 20
    /\ NoGeneralMarker(data)
    /\ ~isEncryptedPKCS12(data)

\* the PKCS#12 OID bytes, "KEY" or "PrivateKey" are present
HasKeyMarker(d) ==
    \/ Contains(d, <<42, 134, 72, 134, 247, 13, 1, 12, 10, 1>>)
    \/ Contains(d, <<75, 69, 89>>)
    \/ Contains(d, <<80, 114, 105, 118, 97, 116, 101, 75, 101, 121>>)

\* "GOST", "ГОСТ" or "gost" is present
HasGostMarker(d) ==
    \/ Contains(d, <<71, 79, 83, 84>>)
    \/ Contains(d, <<208, 147, 208, 158, 208, 161, 208, 162>>)
    \/ Contains(d, <<103, 111, 115, 116>>)

\* C17 as claimed: on a buffer of any length >= 20 whose first byte is 0x30
\* and that holds 02 01 03, any one of the PKCS#12 OID bytes, "KEY",
\* "PrivateKey", "GOST", "ГОСТ", "gost" makes the general PKCS#12 check
\* (isEncryptedPKCS12 and the key-detection IsUserKeyPKCS12) return true.
C17_MarkerSufficiency ==
    (/\ BLen(data) >= 20
     /\ At(data, 0) = 48
     /\ Contains(data, <<2, 1, 3>>)
     /\ HasKeyMarker(data) \/ HasGostMarker(data))
        => /\ call.op = "KeyIsUserKeyPKCS12" => call.ret = TRUE
           /\ call.op = "Detect" => isEncryptedPKCS12(data)

\* C17 as amended: on a buffer whose first byte is 0x30 and on which the
\* version scan of the function finds 02 01 03, the PKCS#12 OID bytes, "KEY" or
\* "PrivateKey" make isEncryptedPKCS12 return true at every length >= 20,
\* and these or "GOST", "ГОСТ", "gost" make the key-detection
\* IsUserKeyPKCS12 return true at every length in 20..100000.  The GOST
\* spellings alone do not make isEncryptedPKCS12 true at a length of 100 or
\* less, and above 100000 bytes the key-detection IsUserKeyPKCS12 returns
\* false whatever the markers, unless the strict parse yields the PKCS#12
\* OID.
C17_MarkersPerVariant ==
    (BLen(data) >= 20 /\ At(data, 0) = 48) =>
        /\ (call.op = "Detect" /\ versionFound(data) /\ HasKeyMarker(data)) =>
               /\ isEncryptedPKCS12(data)
               /\ Unmarshal(data).err # "" =>
                      (call.ret.err = "" /\ call.ret.Type = "Encrypted PKCS#12")
        /\ (call.op = "Detect" /\ versionFound(data) /\ ~HasKeyMarker(data)
                /\ BLen(data) <= 100) =>
               ~isEncryptedPKCS12(data)
        /\ (call.op = "KeyIsUserKeyPKCS12" /\ KeyVersionFound(data)
                /\ BLen(data) <= 100000
                /\ (HasKeyMarker(data) \/ HasGostMarker(data))) =>
               call.ret = TRUE
        /\ (call.op = "KeyIsUserKeyPKCS12" /\ BLen(data) > 100000
                /\ ~BasicIsPKCS12(data)) =>
               call.ret = FALSE

C17_Witness ==
    /\ call.op = "Detect"
    /\ BLen(data) = 20
    /\ Contains(data, StrPrivateKey)
    /\ ~Contains(data, StrKEY)
    /\ call.ret.IsEncrypted

\* C18: in the key-detection IsUserKeyPKCS12 the marker searches never
\* change the verdict: with first byte 0x30, a length in 20..100000 and
\* 02 01 03 found by the version scan it returns true, markers or not; when
\* the strict parse does not yield the PKCS#12 OID and the length is below
\* 20 or above 100000 it returns false, markers or not.
C18_MarkersNeverDecide ==
    call.op = "KeyIsUserKeyPKCS12" =>
        /\ (/\ BLen(data) >= 20 /\ BLen(data) <= 100000
            /\ At(data, 0) = 48
            /\ KeyVersionFound(data)) => call.ret = TRUE
        /\ (/\ BLen(data) < 20 \/ BLen(data) > 100000
            /\ ~(BasicDetect(data).err = ""
                    /\ BasicDetect(data).ContentType = PKCS12OID))
               => call.ret = FALSE

C18_Witness ==
    /\ call.op = "KeyIsUserKeyPKCS12"
    /\ call.ret = TRUE
    /\ BLen(data) = 100000
    /\ At(data, 0) = 48
    /\ ~HasKeyMarker(data)
    /\ ~HasGostMarker(data)

\* C19: whenever Detect succeeds with IsEncrypted = false, its Type equals
\* GetOIDDescription(ContentType), for fixed and unknown OIDs alike; the
\* only Type of a successful Detect that GetOIDDescription does not give for
\* the returned ContentType is "Encrypted PKCS#12", which GetOIDDescription
\* never returns.
C19_LabelConsistency ==
    /\ (call.op = "Detect" /\ call.ret.err = "") =>
           /\ ~call.ret.IsEncrypted =>
                  call.ret.Type = GetOIDDescription(call.ret.ContentType)
           /\ call.ret.Type # GetOIDDescription(call.ret.ContentType) =>
                  call.ret.Type = "Encrypted PKCS#12"
           /\ call.ret.IsEncrypted =>
                  GetOIDDescription(call.ret.ContentType) # "Encrypted PKCS#12"
    /\ (call.op = "BasicDetect" /\ call.ret.err = "") =>
           call.ret.Type = GetOIDDescription(call.ret.ContentType)
    /\ call.op = "GetOIDDescription" => call.ret # "Encrypted PKCS#12"

C19_Witness ==
    /\ call.op = "Detect"
    /\ call.ret.err = ""
    /\ call.ret.ContentType = <<2, 100, 3>>
    /\ call.ret.Type = "Unknown OID: 2.100.3"
    /\ GetOIDDescription(<<2, 100, 3>>) = "Unknown OID: 2.100.3"

TypePredicates == {"IsPKCS7Data", "IsPKCS7SignedData", "IsPKCS7EnvelopedData", "IsPKCS12"}

\* what the type predicate op returns on d
Holds(op, d) ==
    CASE op = "IsPKCS7Data" -> IsPKCS7Data(d)
      [] op = "IsPKCS7SignedData" -> IsPKCS7SignedData(d)
      [] op = "IsPKCS7EnvelopedData" -> IsPKCS7EnvelopedData(d)
      [] op = "IsPKCS12" -> IsPKCS12(d)

\* C20: on every buffer at most one of IsPKCS7Data, IsPKCS7SignedData,
\* IsPKCS7EnvelopedData and IsPKCS12 returns true; a buffer that Detect
\* classifies by the heuristic as "Encrypted PKCS#12" satisfies IsPKCS12 and
\* none of the three PKCS#7 predicates.
C20_PredicatesExclusive ==
    call.op \in TypePredicates =>
        /\ call.ret = Holds(call.op, data)
        /\ call.ret = TRUE =>
               \A other \in TypePredicates \ {call.op} : ~Holds(other, data)
        /\ (Detect(data).err = "" /\ Detect(data).Type = "Encrypted PKCS#12") =>
               call.ret = (call.op = "IsPKCS12")

C20_Witness ==
    /\ call.op = "IsPKCS7EnvelopedData"
    /\ call.ret = FALSE
    /\ Detect(data).err = ""
    /\ Detect(data).Type = "Encrypted PKCS#12"
    /\ IsPKCS12(data)

\* C21: the Detect of the fallback variant extends the Detect of the basic
\* variant conservatively: where the basic Detect succeeds, the fallback
\* Detect returns the same Type and ContentType with IsEncrypted = false;
\* where the basic Detect returns an error, the fallback Detect returns an
\* error too or Type "Encrypted PKCS#12" with an empty ContentType.
C21_ConservativeExtension ==
    /\ call.op = "Detect" =>
           \E basic \in {BasicDetect(data)} :
               /\ basic.err = "" =>
                      /\ call.ret.err = ""
                      /\ call.ret.Type = basic.Type
                      /\ call.ret.ContentType = basic.ContentType
                      /\ ~call.ret.IsEncrypted
               /\ basic.err # "" =>
                      \/ call.ret.err # ""
                      \/ /\ call.ret.Type = "Encrypted PKCS#12"
                         /\ call.ret.ContentType = <<>>
    /\ call.op = "BasicDetect" =>
           \E fallback \in {Detect(data)} :
               /\ call.ret.err = "" =>
                      /\ fallback.err = ""
                      /\ fallback.Type = call.ret.Type
                      /\ fallback.ContentType = call.ret.ContentType
                      /\ ~fallback.IsEncrypted
               /\ (fallback.err = "" /\ call.ret.err # "") =>
                      /\ fallback.Type = "Encrypted PKCS#12"
                      /\ fallback.ContentType = <<>>

C21_Witness ==
    /\ call.op = "BasicDetect"
    /\ call.ret.err # ""
    /\ Detect(data).err = ""
    /\ Detect(data).Type = "Encrypted PKCS#12"
    /\ BLen(data) = 101

=============================================================================
